---- MODULE Spec2Model ----
(***************************************************************************)
(* Model of the personal notes backend:                                    *)
(*   notes_backend/src/api/models.py        Note, InMemoryNoteRepository   *)
(*   notes_backend/src/api/routers/notes.py the /notes request handlers    *)
(*   notes_backend/src/api/dependencies.py  get_current_user, require_auth *)
(*                                                                         *)
(* Every thread runs one call at a time: a request handler ("http", the    *)
(* specification Spec) or a repository method called by other code         *)
(* ("direct", the specification SpecRepo).  A program counter              *)
(* named <function>_<line> is the statement of the source the thread is    *)
(* about to execute.  Note objects live in a heap and are handled by       *)
(* reference, as in Python: _notes maps an id to a reference, and what a   *)
(* repository method returns is a reference, too.                          *)
(*                                                                         *)
(* The system clock is taken to be non-decreasing: time.time() returns the *)
(* value it returned last (the variable clock) or a later one.             *)
(***************************************************************************)
EXTENDS Integers, Sequences, FiniteSets

\* ---------------------------------------------------------------- bounds
MaxCalls == 3          \* the threads start at most MaxCalls calls in all
MaxNotes == 2          \* create is called at most MaxNotes times
MaxTime == 2           \* the latest time the clock shows

Threads == {"t1", "t2"}
NoThread == "none"

NoneStr == "<None>"    \* Python's None where a string is optional
NoRef == 0             \* Python's None where a Note reference is optional
NoId == 0              \* no note id (an argument the call does not take)

\* The repository never looks into a title or a content, only whether update
\* is given one: notes are created with one value and updated to another.
Titles == {"T1"}
Contents == {"C1"}
NewTitles == {"T2"}
NewContents == {"C2"}
Headers == {NoneStr, "alice"}          \* values of the X-User-Id header
Owners == {"alice", "anonymous"}       \* owner_id values of direct calls
NoteIds == 1..MaxNotes

VARIABLES
    lock_owner,   \* _lock (RLock): the thread that holds it, or NoThread
    lock_count,   \* _lock (RLock): its recursion level
    notes,        \* _notes: a dict, as the sequence of its items in insertion order
    next_id,      \* _next_id
    heap,         \* the Note objects ever constructed; a reference is an index
    clock,        \* what time.time() returned last
    pc,           \* per thread: the statement it is about to execute
    call,         \* per thread: the call it runs and its arguments
    loc,          \* per thread: local variables of the repository method
    ret,          \* per thread: what the repository method returned
    out,          \* per thread: the NoteOut records built by _to_note_out
    status,       \* per thread: the HTTP status of the response (0: none yet)
    ncalls,       \* the number of calls started
    \* history variables (not program state)
    created,      \* the creates that returned, in order: id and owner_id
    deleted,      \* ids for which delete returned True
    fresh,        \* the arguments of the creates, until the first update or delete
    shadow,       \* per reference: the fields the repository last stored
    seen,         \* per thread: the (title, content) pairs its notes have held
    last          \* the last repository call that returned, if a create or a get

hist == <<created, deleted, fresh, shadow, seen, last>>
vars == <<lock_owner, lock_count, notes, next_id, heap, clock, pc, call, loc, ret, out, status, ncalls,
          created, deleted, fresh, shadow, seen, last>>

\* ---------------------------------------------------------------- values
NoNote == [id |-> 0, title |-> NoneStr, content |-> NoneStr, owner_id |-> NoneStr,
           created_at |-> 0, updated_at |-> 0]

\* Note(id=..., title=..., content=..., owner_id=..., created_at=..., updated_at=...)
Note(id, title, content, owner_id, created_at, updated_at) ==
    [id |-> id, title |-> title, content |-> content, owner_id |-> owner_id,
     created_at |-> created_at, updated_at |-> updated_at]

NoCall == [op |-> "none", via |-> "none", user_id |-> NoneStr, note_id |-> NoId,
           title |-> NoneStr, content |-> NoneStr, owner_id |-> NoneStr]
NoLoc == [nid |-> 0, now |-> 0, note |-> NoRef, items |-> <<>>, i |-> 0, before |-> NoNote]
NoRet == [note |-> NoRef, ok |-> FALSE, list |-> <<>>]
NoLast == [op |-> "none", id |-> NoId, val |-> NoNote]

\* ---------------------------------------------------------------- dict
\* _notes is a Dict[int, Note]: items [k, v] in insertion order, keys unique.
DictKeys(d) == {d[i].k : i \in 1..Len(d)}

DictHas(d, k) == \E i \in 1..Len(d) : d[i].k = k

\* (a get that ignores its key)
DictGetFirst(d, k) == IF Len(d) > 0 THEN d[1].v ELSE NoRef

\* d.get(k): the value, or None
DictGet(d, k) ==
    IF DictHas(d, k) THEN d[CHOOSE i \in 1..Len(d) : d[i].k = k].v ELSE NoRef

\* d[k] = v: replaces the value of an existing key in place, else appends
DictSet(d, k, v) ==
    IF DictHas(d, k)
    THEN [i \in 1..Len(d) |-> IF d[i].k = k THEN [k |-> k, v |-> v] ELSE d[i]]
    ELSE Append(d, [k |-> k, v |-> v])

IsNotKey(item, k) == item.k # k

\* (a pop that removes nothing)
DictPopKeep(d, k) == d

\* the dict after d.pop(k, None)
DictPop(d, k) ==
    LET Keep(item) == IsNotKey(item, k) IN SelectSeq(d, Keep)

\* list(d.values())
DictValues(d) == [i \in 1..Len(d) |-> d[i].v]

\* ---------------------------------------------------------------- lock
\* (a lock that excludes nobody)
CanAcquireFree(t) == TRUE

\* (a threading.Lock: not reentrant)
CanAcquireLock(t) == lock_owner = NoThread

\* threading.RLock: free, or already held by the calling thread

CanAcquire(t) == lock_owner \in {NoThread, t}

Acquire(t) ==
    /\ CanAcquire(t)
    /\ lock_owner' = t
    /\ lock_count' = lock_count + 1

Release(t) ==
    /\ lock_count' = lock_count - 1
    /\ lock_owner' = IF lock_count - 1 <= 0 THEN NoThread ELSE lock_owner

\* ---------------------------------------------------------------- identity
\* get_current_user: x_user_id or "anonymous"; require_auth returns it as is
get_current_user(x_user_id) ==
    IF x_user_id = NoneStr \/ x_user_id = "" THEN "anonymous" ELSE x_user_id

require_auth(x_user_id) == get_current_user(x_user_id)

\* ---------------------------------------------------------------- start
Init ==
    /\ lock_owner = NoThread
    /\ lock_count = 0
    /\ notes = <<>>
    /\ next_id = 1
    /\ heap = <<>>
    /\ clock = 1
    /\ pc = [t \in Threads |-> "idle"]
    /\ call = [t \in Threads |-> NoCall]
    /\ loc = [t \in Threads |-> NoLoc]
    /\ ret = [t \in Threads |-> NoRet]
    /\ out = [t \in Threads |-> <<>>]
    /\ status = [t \in Threads |-> 0]
    /\ ncalls = 0
    /\ created = <<>>
    /\ deleted = {}
    /\ fresh = <<>>
    /\ shadow = <<>>
    /\ seen = [t \in Threads |-> {}]
    /\ last = NoLast

\* time.time(): the values it may return now
Now == {clock} \cup (IF clock < MaxTime THEN {clock + 1} ELSE {})

\* a thread starts the call c at the statement at
Start(t, c, at) ==
    /\ pc[t] = "idle"
    /\ ncalls < MaxCalls
    /\ ncalls' = ncalls + 1
    /\ pc' = [pc EXCEPT ![t] = at]
    /\ call' = [call EXCEPT ![t] = c]
    /\ UNCHANGED <<lock_owner, lock_count, notes, next_id, heap, clock, loc, ret, out, status>>
    /\ UNCHANGED hist

\* the call is over: the caller has had its result (a handler's response: status
\* and out; a direct call's return value: ret); the thread is free for the next call
finish(t) ==
    /\ pc[t] = "done"
    /\ pc' = [pc EXCEPT ![t] = "idle"]
    /\ call' = [call EXCEPT ![t] = NoCall]
    /\ loc' = [loc EXCEPT ![t] = NoLoc]
    /\ ret' = [ret EXCEPT ![t] = NoRet]
    /\ out' = [out EXCEPT ![t] = <<>>]
    /\ status' = [status EXCEPT ![t] = 0]
    /\ seen' = [seen EXCEPT ![t] = {}]
    /\ UNCHANGED <<lock_owner, lock_count, notes, next_id, heap, clock, ncalls>>
    /\ UNCHANGED <<created, deleted, fresh, shadow, last>>

InCreate ==
    {"create_47", "genid_39", "genid_40", "genid_41", "genid_42",
     "create_49", "create_50", "create_51", "create_52"}

\* the number of create calls started so far
CreatesStarted == Len(created) + Cardinality({t \in Threads : pc[t] \in InCreate})

\* the references a caller holds from a return value
Held(r) == IF r.note # NoRef THEN <<r.note>> ELSE r.list

HeldSet(r) == {Held(r)[i] : i \in 1..Len(Held(r))}

\* the (title, content) pairs of the notes returned, as a handler obtains them
PairsOf(t, r) ==
    IF call[t].via = "http"
    THEN {<<x, heap[x].title, heap[x].content>> : x \in HeldSet(r)}
    ELSE {}

\* the handlers that hold the note x learn the pair an update of it has stored
Publish(x) ==
    [u \in Threads |->
        IF call[u].via = "http" /\ x \in HeldSet(ret[u])
        THEN seen[u] \cup {<<x, heap[x].title, heap[x].content>>}
        ELSE seen[u]]

\* a repository method returns r to its caller and its locals are gone: a handler
\* goes on at its next statement, a direct caller has the result
Return(t, r, at) ==
    /\ ret' = [ret EXCEPT ![t] = r]
    /\ loc' = [loc EXCEPT ![t] = NoLoc]
    /\ pc' = [pc EXCEPT ![t] = IF call[t].via = "http" THEN at ELSE "done"]

\* the arguments of the creates are no longer all that was stored
Stale == <<[id |-> NoId, title |-> NoneStr, content |-> NoneStr, owner_id |-> NoneStr]>>

\* the statements of _to_note_out
Converting == {"out_17", "out_18", "out_19", "out_20", "out_21", "out_22"}

\* the note _to_note_out is converting: the returned note, or the i-th of the list
Cur(t) == Held(ret[t])[loc[t].i]

\* a local variable is assigned
SetLoc(t, field, v) == loc' = [loc EXCEPT ![t][field] = v]

Goto(t, at) == pc' = [pc EXCEPT ![t] = at]


\* ---------------------------------------------------------------- create
\* create, line 47: with self._lock; line 48 calls _generate_id
create_47(t) ==
    /\ pc[t] = "create_47"
    /\ Acquire(t)
    /\ Goto(t, "genid_39")
    /\ UNCHANGED <<notes, next_id, heap, clock, call, loc, ret, out, status, ncalls>>
    /\ UNCHANGED hist

\* _generate_id, line 39: with self._lock (the lock create already holds)
genid_39(t) ==
    /\ pc[t] = "genid_39"
    /\ Acquire(t)
    /\ Goto(t, "genid_40")
    /\ UNCHANGED <<notes, next_id, heap, clock, call, loc, ret, out, status, ncalls>>
    /\ UNCHANGED hist

\* (an id generator that issues the least id that is not a key of _notes)
genid_40Reuse(t) ==
    /\ pc[t] = "genid_40"
    /\ SetLoc(t, "nid", CHOOSE k \in 1..(Len(notes) + 1) :
                            /\ ~ DictHas(notes, k)
                            /\ \A j \in 1..(k - 1) : DictHas(notes, j))
    /\ Goto(t, "genid_41")
    /\ UNCHANGED <<lock_owner, lock_count, notes, next_id, heap, clock, call, ret, out, status, ncalls>>
    /\ UNCHANGED hist

\* _generate_id, line 40: nid = self._next_id
genid_40(t) ==
    /\ pc[t] = "genid_40"
    /\ SetLoc(t, "nid", next_id)
    /\ Goto(t, "genid_41")
    /\ UNCHANGED <<lock_owner, lock_count, notes, next_id, heap, clock, call, ret, out, status, ncalls>>
    /\ UNCHANGED hist

\* (an _generate_id that does not increment the counter)
genid_41Skip(t) ==
    /\ pc[t] = "genid_41"
    /\ Goto(t, "genid_42")
    /\ UNCHANGED <<lock_owner, lock_count, notes, next_id, heap, clock, call, loc, ret, out, status, ncalls>>
    /\ UNCHANGED hist

\* _generate_id, line 41: self._next_id += 1
genid_41(t) ==
    /\ pc[t] = "genid_41"
    /\ next_id' = next_id + 1
    /\ Goto(t, "genid_42")
    /\ UNCHANGED <<lock_owner, lock_count, notes, heap, clock, call, loc, ret, out, status, ncalls>>
    /\ UNCHANGED hist

\* _generate_id, line 42: return nid, leaving the with block
genid_42(t) ==
    /\ pc[t] = "genid_42"
    /\ Release(t)
    /\ Goto(t, "create_49")
    /\ UNCHANGED <<notes, next_id, heap, clock, call, loc, ret, out, status, ncalls>>
    /\ UNCHANGED hist

\* create, line 49: now = time.time()
create_49(t) ==
    \E now \in Now :
        /\ pc[t] = "create_49"
        /\ clock' = now
        /\ SetLoc(t, "now", now)
        /\ Goto(t, "create_50")
        /\ UNCHANGED <<lock_owner, lock_count, notes, next_id, heap, call, ret, out, status, ncalls>>
        /\ UNCHANGED hist

\* create, line 50: note = Note(id=nid, ..., created_at=now, updated_at=now)
create_50(t) ==
    LET n == Note(loc[t].nid, call[t].title, call[t].content, call[t].owner_id,
                  loc[t].now, loc[t].now)
    IN  /\ pc[t] = "create_50"
        /\ heap' = Append(heap, n)
        /\ shadow' = Append(shadow, n)
        /\ SetLoc(t, "note", Len(heap) + 1)
        /\ Goto(t, "create_51")
        /\ UNCHANGED <<lock_owner, lock_count, notes, next_id, clock, call, ret, out, status, ncalls>>
        /\ UNCHANGED <<created, deleted, fresh, seen, last>>

\* create, line 51: self._notes[nid] = note
create_51(t) ==
    /\ pc[t] = "create_51"
    /\ notes' = DictSet(notes, loc[t].nid, loc[t].note)
    /\ Goto(t, "create_52")
    /\ UNCHANGED <<lock_owner, lock_count, next_id, heap, clock, call, loc, ret, out, status, ncalls>>
    /\ UNCHANGED hist

\* create, line 52: return note, leaving the with block
create_52(t) ==
    LET r == [NoRet EXCEPT !.note = loc[t].note]
    IN  /\ pc[t] = "create_52"
        /\ Release(t)
        /\ Return(t, r, "create_note_50")
        /\ created' = Append(created, [id |-> loc[t].nid, owner_id |-> call[t].owner_id])
        /\ fresh' = IF fresh = Stale THEN Stale
                    ELSE Append(fresh, [id |-> loc[t].nid, title |-> call[t].title,
                                        content |-> call[t].content,
                                        owner_id |-> call[t].owner_id])
        /\ seen' = [seen EXCEPT ![t] = PairsOf(t, r)]
        /\ last' = [op |-> "create", id |-> loc[t].nid, val |-> heap[loc[t].note]]
        /\ UNCHANGED <<notes, next_id, heap, clock, call, out, status, ncalls>>
        /\ UNCHANGED <<deleted, shadow>>

\* ---------------------------------------------------------------- list_all
\* list_all, line 57: with self._lock
list_57(t) ==
    /\ pc[t] = "list_57"
    /\ Acquire(t)
    /\ Goto(t, "list_58")
    /\ UNCHANGED <<notes, next_id, heap, clock, call, loc, ret, out, status, ncalls>>
    /\ UNCHANGED hist

\* list_all, line 58: items = list(self._notes.values())
list_58(t) ==
    /\ pc[t] = "list_58"
    /\ SetLoc(t, "items", DictValues(notes))
    /\ Goto(t, "list_59")
    /\ UNCHANGED <<lock_owner, lock_count, notes, next_id, heap, clock, call, ret, out, status, ncalls>>
    /\ UNCHANGED hist

\* (a filter that keeps every note)
FilterOwnerAll(items, owner_id, h) == items

\* [n for n in items if n.owner_id == owner_id]
FilterOwner(items, owner_id, h) ==
    LET Mine(x) == h[x].owner_id = owner_id IN SelectSeq(items, Mine)

\* list_all, lines 59-60: if owner_id is not None: items = [...]
list_59(t) ==
    /\ pc[t] = "list_59"
    /\ SetLoc(t, "items", IF call[t].owner_id # NoneStr
                          THEN FilterOwner(loc[t].items, call[t].owner_id, heap)
                          ELSE loc[t].items)
    /\ Goto(t, "list_62")
    /\ UNCHANGED <<lock_owner, lock_count, notes, next_id, heap, clock, call, ret, out, status, ncalls>>
    /\ UNCHANGED hist

\* list_all, line 62: return list(items), leaving the with block
list_62(t) ==
    LET r == [NoRet EXCEPT !.list = loc[t].items]
    IN  /\ pc[t] = "list_62"
        /\ Release(t)
        /\ Return(t, r, "list_notes_75")
        /\ seen' = [seen EXCEPT ![t] = PairsOf(t, r)]
        /\ last' = NoLast
        /\ UNCHANGED <<notes, next_id, heap, clock, call, out, status, ncalls>>
        /\ UNCHANGED <<created, deleted, fresh, shadow>>

\* ---------------------------------------------------------------- get
\* get, line 67: with self._lock
get_67(t) ==
    /\ pc[t] = "get_67"
    /\ Acquire(t)
    /\ Goto(t, "get_68")
    /\ UNCHANGED <<notes, next_id, heap, clock, call, loc, ret, out, status, ncalls>>
    /\ UNCHANGED hist

\* (a get that returns None to a caller who is not the owner of the note)
get_68Owned(t) ==
    LET x == DictGet(notes, call[t].note_id)
        r == [NoRet EXCEPT !.note = IF x # NoRef /\ call[t].via = "http"
                                          /\ heap[x].owner_id # call[t].user_id
                                       THEN NoRef ELSE x]
    IN  /\ pc[t] = "get_68"
        /\ Release(t)
        /\ Return(t, r, "get_note_108")
        /\ seen' = [seen EXCEPT ![t] = PairsOf(t, r)]
        /\ last' = NoLast
        /\ UNCHANGED <<notes, next_id, heap, clock, call, out, status, ncalls>>
        /\ UNCHANGED <<created, deleted, fresh, shadow>>

\* get, line 68: return self._notes.get(note_id), leaving the with block
get_68(t) ==
    LET r == [NoRet EXCEPT !.note = DictGet(notes, call[t].note_id)]
    IN  /\ pc[t] = "get_68"
        /\ Release(t)
        /\ Return(t, r, "get_note_108")
        /\ seen' = [seen EXCEPT ![t] = PairsOf(t, r)]
        /\ last' = [op |-> "get", id |-> call[t].note_id,
                    val |-> IF last.op = "create" /\ last.id = call[t].note_id
                            THEN last.val ELSE NoNote]
        /\ UNCHANGED <<notes, next_id, heap, clock, call, out, status, ncalls>>
        /\ UNCHANGED <<created, deleted, fresh, shadow>>

\* ---------------------------------------------------------------- update
\* update, line 73: with self._lock
update_73(t) ==
    /\ pc[t] = "update_73"
    /\ Acquire(t)
    /\ Goto(t, "update_74")
    /\ UNCHANGED <<notes, next_id, heap, clock, call, loc, ret, out, status, ncalls>>
    /\ UNCHANGED hist

\* update, line 74: note = self._notes.get(note_id)
\* (before: the note's fields at this point, kept for the properties)
update_74(t) ==
    LET x == DictGet(notes, call[t].note_id)
    IN  /\ pc[t] = "update_74"
        /\ loc' = [loc EXCEPT ![t].note = x,
                              ![t].before = IF x = NoRef THEN NoNote ELSE heap[x]]
        /\ Goto(t, "update_75")
        /\ UNCHANGED <<lock_owner, lock_count, notes, next_id, heap, clock, call, ret, out, status, ncalls>>
        /\ UNCHANGED hist

\* update, lines 75-76: if note is None: return None
update_75(t) ==
    /\ pc[t] = "update_75"
    /\ IF loc[t].note = NoRef
       THEN /\ Release(t)
            /\ Return(t, NoRet, "update_note_151")
            /\ last' = NoLast
       ELSE /\ Goto(t, "update_77")
            /\ UNCHANGED <<lock_owner, lock_count, loc, ret, last, ncalls>>
    /\ UNCHANGED <<notes, next_id, heap, clock, call, out, status, ncalls>>
    /\ UNCHANGED <<created, deleted, fresh, shadow, seen>>

\* note.<field> = v, by the repository
SetField(t, field, v) ==
    /\ heap' = [heap EXCEPT ![loc[t].note][field] = v]
    /\ shadow' = [shadow EXCEPT ![loc[t].note][field] = v]

\* update, lines 77-78: if title is not None: note.title = title
update_77(t) ==
    /\ pc[t] = "update_77"
    /\ IF call[t].title # NoneStr
       THEN SetField(t, "title", call[t].title)
       ELSE UNCHANGED <<heap, shadow>>
    /\ Goto(t, "update_79")
    /\ UNCHANGED <<lock_owner, lock_count, notes, next_id, clock, call, loc, ret, out, status, ncalls>>
    /\ UNCHANGED <<created, deleted, fresh, seen, last>>

\* (note.content = content without the test for None)
update_79Unconditional(t) ==
    /\ pc[t] = "update_79"
    /\ SetField(t, "content", call[t].content)
    /\ Goto(t, "update_81")
    /\ UNCHANGED <<lock_owner, lock_count, notes, next_id, clock, call, loc, ret, out, status, ncalls>>
    /\ UNCHANGED <<created, deleted, fresh, seen, last>>

\* update, lines 79-80: if content is not None: note.content = content
update_79(t) ==
    /\ pc[t] = "update_79"
    /\ IF call[t].content # NoneStr
       THEN SetField(t, "content", call[t].content)
       ELSE UNCHANGED <<heap, shadow>>
    /\ Goto(t, "update_81")
    /\ UNCHANGED <<lock_owner, lock_count, notes, next_id, clock, call, loc, ret, out, status, ncalls>>
    /\ UNCHANGED <<created, deleted, fresh, seen, last>>

\* (note.created_at = time.time())
update_81Created(t) ==
    \E now \in Now :
        /\ pc[t] = "update_81"
        /\ clock' = now
        /\ SetField(t, "created_at", now)
        /\ Goto(t, "update_82")
        /\ UNCHANGED <<lock_owner, lock_count, notes, next_id, call, loc, ret, out, status, ncalls>>
        /\ UNCHANGED <<created, deleted, fresh, seen, last>>

\* update, line 81: note.updated_at = time.time()
update_81(t) ==
    \E now \in Now :
        /\ pc[t] = "update_81"
        /\ clock' = now
        /\ SetField(t, "updated_at", now)
        /\ Goto(t, "update_82")
        /\ UNCHANGED <<lock_owner, lock_count, notes, next_id, call, loc, ret, out, status, ncalls>>
        /\ UNCHANGED <<created, deleted, fresh, seen, last>>

\* update, line 82: return note, leaving the with block
update_82(t) ==
    LET r == [NoRet EXCEPT !.note = loc[t].note]
    IN  /\ pc[t] = "update_82"
        /\ Release(t)
        /\ Return(t, r, "update_note_151")
        /\ fresh' = Stale
        /\ seen' = [Publish(loc[t].note) EXCEPT ![t] = PairsOf(t, r)]
        /\ last' = NoLast
        /\ UNCHANGED <<notes, next_id, heap, clock, call, out, status, ncalls>>
        /\ UNCHANGED <<created, deleted, shadow>>

\* ---------------------------------------------------------------- delete
\* delete, line 87: with self._lock
delete_87(t) ==
    /\ pc[t] = "delete_87"
    /\ Acquire(t)
    /\ Goto(t, "delete_88")
    /\ UNCHANGED <<notes, next_id, heap, clock, call, loc, ret, out, status, ncalls>>
    /\ UNCHANGED hist

\* delete, line 88: return self._notes.pop(note_id, None) is not None
delete_88(t) ==
    LET popped == DictGet(notes, call[t].note_id)
    IN  /\ pc[t] = "delete_88"
        /\ notes' = DictPop(notes, call[t].note_id)
        /\ Release(t)
        /\ Return(t, [NoRet EXCEPT !.ok = (popped # NoRef)], "delete_note_185")
        /\ deleted' = IF popped # NoRef THEN deleted \cup {call[t].note_id} ELSE deleted
        /\ fresh' = IF popped # NoRef THEN Stale ELSE fresh
        /\ last' = NoLast
        /\ UNCHANGED <<next_id, heap, clock, call, out, status, ncalls>>
        /\ UNCHANGED <<created, shadow, seen>>


\* ---------------------------------------------------------------- _to_note_out
\* the NoteOut under construction gets a field
SetOut(t, field, v) == out' = [out EXCEPT ![t][Len(out[t])][field] = v]

\* a handler calls _to_note_out on the first (or only) note returned
Convert(t) ==
    /\ SetLoc(t, "i", 1)
    /\ Goto(t, "out_17")

\* a handler's response: its status; the repository's result goes out of scope
Respond(t, code) ==
    /\ status' = [status EXCEPT ![t] = code]
    /\ ret' = [ret EXCEPT ![t] = NoRet]
    /\ loc' = [loc EXCEPT ![t] = NoLoc]
    /\ Goto(t, "done")

\* _to_note_out, line 17: id=note.id
out_17(t) ==
    /\ pc[t] = "out_17"
    /\ out' = [out EXCEPT ![t] = Append(@, [NoNote EXCEPT !.id = heap[Cur(t)].id])]
    /\ Goto(t, "out_18")
    /\ UNCHANGED <<lock_owner, lock_count, notes, next_id, heap, clock, call, loc, ret, status, ncalls>>
    /\ UNCHANGED hist

\* _to_note_out, line 18: title=note.title
out_18(t) ==
    /\ pc[t] = "out_18"
    /\ SetOut(t, "title", heap[Cur(t)].title)
    /\ Goto(t, "out_19")
    /\ UNCHANGED <<lock_owner, lock_count, notes, next_id, heap, clock, call, loc, ret, status, ncalls>>
    /\ UNCHANGED hist

\* _to_note_out, line 19: content=note.content
out_19(t) ==
    /\ pc[t] = "out_19"
    /\ SetOut(t, "content", heap[Cur(t)].content)
    /\ Goto(t, "out_20")
    /\ UNCHANGED <<lock_owner, lock_count, notes, next_id, heap, clock, call, loc, ret, status, ncalls>>
    /\ UNCHANGED hist

\* _to_note_out, line 20: owner_id=note.owner_id
out_20(t) ==
    /\ pc[t] = "out_20"
    /\ SetOut(t, "owner_id", heap[Cur(t)].owner_id)
    /\ Goto(t, "out_21")
    /\ UNCHANGED <<lock_owner, lock_count, notes, next_id, heap, clock, call, loc, ret, status, ncalls>>
    /\ UNCHANGED hist

\* _to_note_out, line 21: created_at=note.created_at
out_21(t) ==
    /\ pc[t] = "out_21"
    /\ SetOut(t, "created_at", heap[Cur(t)].created_at)
    /\ Goto(t, "out_22")
    /\ UNCHANGED <<lock_owner, lock_count, notes, next_id, heap, clock, call, loc, ret, status, ncalls>>
    /\ UNCHANGED hist

\* _to_note_out, line 22: updated_at=note.updated_at, and the NoteOut is returned:
\* list_notes goes on with the next note of the list, else the handler responds
out_22(t) ==
    /\ pc[t] = "out_22"
    /\ SetOut(t, "updated_at", heap[Cur(t)].updated_at)
    /\ IF loc[t].i < Len(Held(ret[t]))
       THEN /\ SetLoc(t, "i", loc[t].i + 1)
            /\ Goto(t, "out_17")
       ELSE /\ Goto(t, "respond")
            /\ UNCHANGED loc
    /\ UNCHANGED <<lock_owner, lock_count, notes, next_id, heap, clock, call, ret, status, ncalls>>
    /\ UNCHANGED hist

\* ---------------------------------------------------------------- handlers
\* create_note, line 50: return _to_note_out(note)
create_note_50(t) ==
    /\ pc[t] = "create_note_50"
    /\ Convert(t)
    /\ UNCHANGED <<lock_owner, lock_count, notes, next_id, heap, clock, call, ret, out, status, ncalls>>
    /\ UNCHANGED hist

\* list_notes, line 75: return [_to_note_out(n) for n in notes]
list_notes_75(t) ==
    /\ pc[t] = "list_notes_75"
    /\ IF ret[t].list = <<>>
       THEN Respond(t, 200)
       ELSE /\ Convert(t)
            /\ UNCHANGED <<ret, status>>
    /\ UNCHANGED <<lock_owner, lock_count, notes, next_id, heap, clock, call, out, ncalls>>
    /\ UNCHANGED hist

\* get_note, lines 108-111: 404 if note is None, else return _to_note_out(note)
get_note_108(t) ==
    /\ pc[t] = "get_note_108"
    /\ IF ret[t].note = NoRef
       THEN Respond(t, 404)
       ELSE /\ Convert(t)
            /\ UNCHANGED <<ret, status>>
    /\ UNCHANGED <<lock_owner, lock_count, notes, next_id, heap, clock, call, out, ncalls>>
    /\ UNCHANGED hist

\* update_note, lines 151-153: 404 if note is None, else return _to_note_out(note)
update_note_151(t) ==
    /\ pc[t] = "update_note_151"
    /\ IF ret[t].note = NoRef
       THEN Respond(t, 404)
       ELSE /\ Convert(t)
            /\ UNCHANGED <<ret, status>>
    /\ UNCHANGED <<lock_owner, lock_count, notes, next_id, heap, clock, call, out, ncalls>>
    /\ UNCHANGED hist

\* delete_note, lines 185-187: 404 if not deleted, else 204
delete_note_185(t) ==
    /\ pc[t] = "delete_note_185"
    /\ Respond(t, IF ret[t].ok THEN 204 ELSE 404)
    /\ UNCHANGED <<lock_owner, lock_count, notes, next_id, heap, clock, call, out, ncalls>>
    /\ UNCHANGED hist

\* the response of a handler that returns NoteOut records: 201 for create_note
\* (the status_code of its route), 200 for list_notes, get_note and update_note
respond(t) ==
    /\ pc[t] = "respond"
    /\ Respond(t, IF call[t].op = "create" THEN 201 ELSE 200)
    /\ UNCHANGED <<lock_owner, lock_count, notes, next_id, heap, clock, call, out, ncalls>>
    /\ UNCHANGED hist

\* ---------------------------------------------------------------- requests
\* POST /notes: create_note, line 49:
\* repository.create(title=payload.title, content=payload.content, owner_id=user_id)
create_note(t) ==
    \E title \in Titles, content \in Contents, x_user_id \in Headers :
        /\ CreatesStarted < MaxNotes
        /\ Start(t, [NoCall EXCEPT !.op = "create", !.via = "http",
                                   !.user_id = require_auth(x_user_id),
                                   !.title = title, !.content = content,
                                   !.owner_id = require_auth(x_user_id)], "create_47")

\* GET /notes: list_notes, line 74: repository.list_all(owner_id=user_id)
list_notes(t) ==
    \E x_user_id \in Headers :
        Start(t, [NoCall EXCEPT !.op = "list_all", !.via = "http",
                                !.user_id = require_auth(x_user_id),
                                !.owner_id = require_auth(x_user_id)], "list_57")

\* GET /notes/{note_id}: get_note, line 107: repository.get(note_id)
\* (get_note, update_note and delete_note take user_id and never use it)
get_note(t) ==
    \E note_id \in NoteIds, x_user_id \in Headers :
        Start(t, [NoCall EXCEPT !.op = "get", !.via = "http",
                                !.user_id = require_auth(x_user_id),
                                !.note_id = note_id], "get_67")

\* (update_note without the test of line 147)
update_noteNoCheck(t) ==
    \E note_id \in NoteIds, x_user_id \in Headers,
       title \in NewTitles \cup {NoneStr}, content \in NewContents \cup {NoneStr} :
        Start(t, [NoCall EXCEPT !.op = "update", !.via = "http",
                                !.user_id = require_auth(x_user_id),
                                !.note_id = note_id, !.title = title, !.content = content],
              "update_73")

\* PUT /notes/{note_id}: update_note, lines 147-150: 400 if the payload has
\* neither field, else repository.update(note_id, title=..., content=...)
update_note(t) ==
    \E note_id \in NoteIds, x_user_id \in Headers,
       title \in NewTitles \cup {NoneStr}, content \in NewContents \cup {NoneStr} :
        LET c == [NoCall EXCEPT !.op = "update", !.via = "http",
                                !.user_id = require_auth(x_user_id),
                                !.note_id = note_id, !.title = title, !.content = content]
        IN  IF title = NoneStr /\ content = NoneStr
            THEN /\ pc[t] = "idle"
                 /\ ncalls < MaxCalls
                 /\ ncalls' = ncalls + 1
                 /\ call' = [call EXCEPT ![t] = c]
                 /\ Respond(t, 400)
                 /\ UNCHANGED <<lock_owner, lock_count, notes, next_id, heap, clock, out>>
                 /\ UNCHANGED hist
            ELSE Start(t, c, "update_73")

\* DELETE /notes/{note_id}: delete_note, line 184: repository.delete(note_id)
delete_note(t) ==
    \E note_id \in NoteIds, x_user_id \in Headers :
        Start(t, [NoCall EXCEPT !.op = "delete", !.via = "http",
                                !.user_id = require_auth(x_user_id),
                                !.note_id = note_id], "delete_87")

\* ---------------------------------------------------------------- direct calls
\* repository.create(title, content, owner_id)
create(t) ==
    \E title \in Titles, content \in Contents, owner_id \in Owners :
        /\ CreatesStarted < MaxNotes
        /\ Start(t, [NoCall EXCEPT !.op = "create", !.via = "direct", !.title = title,
                                   !.content = content, !.owner_id = owner_id], "create_47")

\* repository.list_all(owner_id) and repository.list_all()
list_all(t) ==
    \E owner_id \in Owners \cup {NoneStr} :
        Start(t, [NoCall EXCEPT !.op = "list_all", !.via = "direct",
                                !.owner_id = owner_id], "list_57")

\* repository.get(note_id)
get(t) ==
    \E note_id \in NoteIds :
        Start(t, [NoCall EXCEPT !.op = "get", !.via = "direct", !.note_id = note_id], "get_67")

\* repository.update(note_id, title=..., content=...), each of the two optional
update(t) ==
    \E note_id \in NoteIds, title \in NewTitles \cup {NoneStr}, content \in NewContents \cup {NoneStr} :
        Start(t, [NoCall EXCEPT !.op = "update", !.via = "direct", !.note_id = note_id,
                                !.title = title, !.content = content], "update_73")

\* repository.delete(note_id)
delete(t) ==
    \E note_id \in NoteIds :
        Start(t, [NoCall EXCEPT !.op = "delete", !.via = "direct", !.note_id = note_id],
              "delete_87")

\* ---------------------------------------------------------------- system
\* the steps of the repository's methods
RepoStep(t) ==
    \/ create_47(t) \/ genid_39(t) \/ genid_40(t) \/ genid_41(t) \/ genid_42(t)
    \/ create_49(t) \/ create_50(t) \/ create_51(t) \/ create_52(t)
    \/ list_57(t) \/ list_58(t) \/ list_59(t) \/ list_62(t)
    \/ get_67(t) \/ get_68(t)
    \/ update_73(t) \/ update_74(t) \/ update_75(t) \/ update_77(t) \/ update_79(t)
    \/ update_81(t) \/ update_82(t)
    \/ delete_87(t) \/ delete_88(t)

\* the request handlers, as the application runs them
Next ==
    \E t \in Threads :
        \/ create_note(t) \/ list_notes(t) \/ get_note(t) \/ update_note(t) \/ delete_note(t)
        \/ RepoStep(t)
        \/ out_17(t) \/ out_18(t) \/ out_19(t) \/ out_20(t) \/ out_21(t) \/ out_22(t)
        \/ create_note_50(t) \/ list_notes_75(t) \/ get_note_108(t) \/ update_note_151(t)
        \/ delete_note_185(t) \/ respond(t)
        \/ finish(t)

Spec == Init /\ [][Next]_vars

\* the repository, called directly from several threads
NextRepo ==
    \E t \in Threads :
        \/ create(t) \/ list_all(t) \/ get(t) \/ update(t) \/ delete(t)
        \/ RepoStep(t)
        \/ finish(t)

SpecRepo == Init /\ [][NextRepo]_vars

\* the scheduler runs every thread that can run: a thread that stays able to
\* execute its next statement of a repository method executes it
Fairness == \A t \in Threads : WF_vars(RepoStep(t))

SpecRepoFair == Init /\ [][NextRepo]_vars /\ Fairness

\* other code that called the repository assigns a field of a Note it was
\* returned (Note is a dataclass that is not frozen)
caller_set(t) ==
    \E x \in HeldSet(ret[t]), field \in {"title", "content"} :
        /\ pc[t] = "done"
        /\ call[t].via = "direct"
        /\ heap' = [heap EXCEPT ![x][field] = "mine"]
        /\ UNCHANGED <<lock_owner, lock_count, notes, next_id, clock, pc, call, loc, ret, out,
                       status, ncalls>>
        /\ UNCHANGED hist

\* the repository, called directly by code that also writes to what it gets
NextCaller ==
    \/ NextRepo
    \/ \E t \in Threads : caller_set(t)

SpecCaller == Init /\ [][NextCaller]_vars

\* one client sends five requests, each after the response to the one before:
\* POST /notes {title: "Shopping", content: "Milk"}, GET /notes/1,
\* PUT /notes/1 {content: "Milk, Eggs"}, DELETE /notes/1, GET /notes/1.
\* Each is the call its handler makes (create_note line 49, get_note line 107,
\* update_note line 150 as line 147 finds a content, delete_note line 184).
EndToEndCalls(user_id) ==
    <<[c |-> [NoCall EXCEPT !.op = "create", !.via = "http", !.user_id = user_id,
                            !.title = "Shopping", !.content = "Milk",
                            !.owner_id = user_id],
       at |-> "create_47"],
      [c |-> [NoCall EXCEPT !.op = "get", !.via = "http", !.user_id = user_id,
                            !.note_id = 1],
       at |-> "get_67"],
      [c |-> [NoCall EXCEPT !.op = "update", !.via = "http", !.user_id = user_id,
                            !.note_id = 1, !.content = "Milk, Eggs"],
       at |-> "update_73"],
      [c |-> [NoCall EXCEPT !.op = "delete", !.via = "http", !.user_id = user_id,
                            !.note_id = 1],
       at |-> "delete_87"],
      [c |-> [NoCall EXCEPT !.op = "get", !.via = "http", !.user_id = user_id,
                            !.note_id = 1],
       at |-> "get_67"]>>

\* the client's next request, with any X-User-Id header
end_to_end(t) ==
    \E x_user_id \in Headers :
        LET calls == EndToEndCalls(require_auth(x_user_id))
        IN  /\ pc[t] = "idle"
            /\ ncalls < Len(calls)
            /\ ncalls' = ncalls + 1
            /\ pc' = [pc EXCEPT ![t] = calls[ncalls + 1].at]
            /\ call' = [call EXCEPT ![t] = calls[ncalls + 1].c]
            /\ UNCHANGED <<lock_owner, lock_count, notes, next_id, heap, clock, loc, ret, out,
                           status>>
            /\ UNCHANGED hist

\* the handlers serving that client on a fresh repository
NextEndToEnd ==
    \E t \in {"t1"} :
        \/ end_to_end(t)
        \/ create_47(t) \/ genid_39(t) \/ genid_40(t) \/ genid_41(t) \/ genid_42(t)
        \/ create_49(t) \/ create_50(t) \/ create_51(t) \/ create_52(t)
        \/ get_67(t) \/ get_68(t)
        \/ update_73(t) \/ update_74(t) \/ update_75(t) \/ update_77(t) \/ update_79(t)
        \/ update_81(t) \/ update_82(t)
        \/ delete_87(t) \/ delete_88(t)
        \/ out_17(t) \/ out_18(t) \/ out_19(t) \/ out_20(t) \/ out_21(t) \/ out_22(t)
        \/ create_note_50(t) \/ get_note_108(t) \/ update_note_151(t)
        \/ delete_note_185(t) \/ respond(t)
        \/ finish(t)

SpecEndToEnd == Init /\ [][NextEndToEnd]_vars

\* ---------------------------------------------------------------- properties
\* C1: the ids create returns are strictly increasing in the order the creates
\* return, so none is returned twice, whatever deletes happen in between.
IdsStrictlyIncreasing ==
    \A i \in 1..Len(created) : \A j \in 1..Len(created) :
        i < j => created[i].id < created[j].id

\* two creates returned and the note of the first was deleted before the second
IdsStrictlyIncreasingWitness ==
    /\ Len(created) = 2
    /\ created[1].id \in deleted
    /\ ~ DictHas(notes, created[1].id)
    /\ DictHas(notes, created[2].id)

\* C2: when only creates were called, once every create has returned, the store holds as
\* many notes as creates returned, under distinct ids, and get finds each with
\* the title, content and owner it was created with.
NoCreateLost ==
    (/\ fresh # Stale
     /\ \A t \in Threads : call[t].op \in {"none", "create"} /\ pc[t] \notin InCreate) =>
        /\ Len(notes) = Len(fresh)
        /\ Cardinality({fresh[i].id : i \in 1..Len(fresh)}) = Len(fresh)
        /\ \A i \in 1..Len(fresh) :
            LET x == DictGet(notes, fresh[i].id)
            IN  /\ x # NoRef
                /\ heap[x].id = fresh[i].id
                /\ heap[x].title = fresh[i].title
                /\ heap[x].content = fresh[i].content
                /\ heap[x].owner_id = fresh[i].owner_id

\* both threads have returned from a create, and nothing else was called
NoCreateLostWitness ==
    /\ Len(fresh) = 2
    /\ Len(notes) = 2
    /\ \A t \in Threads : pc[t] = "done" /\ call[t].op = "create"


\* thread t returns from the statement at
Returns(t, at) == pc[t] = at /\ pc'[t] # at

InUpdate == {"update_77", "update_79", "update_81", "update_82"}

\* C3: what get returns for a stored id has the field values the repository
\* stored, whatever callers did to the records they were returned before.
GetReturnsWhatWasStored ==
    \A t \in Threads :
        pc[t] = "get_68" =>
            LET x == DictGet(notes, call[t].note_id)
            IN  x # NoRef => heap[x] = shadow[x]

\* C4: the title and content a GET handler puts into its response are a pair
\* the note held at one moment: the pair it had when the repository returned
\* it, or the pair an update stored since.
NoTornRead ==
    \A t \in Threads :
        (/\ pc[t] = "respond"
         /\ call[t].op \in {"get", "list_all"}
         /\ \A u \in Threads : pc[u] \notin InUpdate) =>
            \A i \in 1..Len(out[t]) :
                <<Held(ret[t])[i], out[t][i].title, out[t][i].content>> \in seen[t]

\* C5: as long as a caller holds a record it was returned, no step changes a
\* field of that record.
ReturnedRecordIsSnapshot ==
    [][\A t \in Threads : \A x \in HeldSet(ret[t]) :
           ret'[t] = ret[t] => heap'[x] = heap[x]]_vars

\* C6: a get of the id that the create just before it returned (no call
\* returned in between) returns a note equal in all six fields to the one
\* create returned, whose created_at equals its updated_at.
GetAfterCreate ==
    [][\A t \in Threads :
           (Returns(t, "get_68") /\ last.op = "create" /\ last.id = call[t].note_id) =>
               /\ ret'[t].note # NoRef
               /\ heap'[ret'[t].note] = last.val
               /\ last.val.id = call[t].note_id
               /\ last.val.created_at = last.val.updated_at]_vars

GetAfterCreateWitness ==
    /\ last.op = "get"
    /\ last.val # NoNote
    /\ \E t \in Threads :
        /\ pc[t] = "done"
        /\ call[t].op = "get"
        /\ call[t].note_id = last.id
        /\ ret[t].note # NoRef
        /\ heap[ret[t].note] = last.val

\* the fields an update must leave alone
Frame(n) == <<n.id, n.owner_id, n.created_at>>

\* C7: an update of an existing note with a title only sets the title and
\* leaves content, id, owner_id and created_at as they were; with a content
\* only, it sets the content and leaves the title; either way updated_at does
\* not decrease.  The returned record is the stored note.
UpdateChangesOnlyItsFields ==
    [][\A t \in Threads :
           (Returns(t, "update_82") /\ (call[t].title = NoneStr \/ call[t].content = NoneStr)) =>
               LET x == ret'[t].note
                   b == loc[t].before
               IN  /\ x # NoRef
                   /\ x = DictGet(notes', call[t].note_id)
                   /\ Frame(heap'[x]) = Frame(b)
                   /\ heap'[x].updated_at >= b.updated_at
                   /\ heap'[x].title = IF call[t].title # NoneStr THEN call[t].title ELSE b.title
                   /\ heap'[x].content =
                          IF call[t].content # NoneStr THEN call[t].content ELSE b.content]_vars

\* update(id, title="T2") has returned a note with the new title and the old content
UpdateChangesOnlyItsFieldsWitness ==
    \E t \in Threads :
        /\ pc[t] = "done"
        /\ call[t].op = "update"
        /\ call[t].title = "T2"
        /\ call[t].content = NoneStr
        /\ ret[t].note # NoRef
        /\ heap[ret[t].note].title = "T2"
        /\ heap[ret[t].note].content = "C1"
        /\ heap[ret[t].note].updated_at > heap[ret[t].note].created_at

\* C8: delete of a stored id returns True and removes the note; from then on
\* get of that id returns None and delete of it returns False and leaves the
\* store as it is.
DeleteThenAbsent ==
    [][\A t \in Threads :
           /\ (Returns(t, "delete_88") /\ DictHas(notes, call[t].note_id)) =>
                  /\ ret'[t].ok
                  /\ ~ DictHas(notes', call[t].note_id)
                  /\ call[t].note_id \in deleted'
           /\ (Returns(t, "get_68") /\ call[t].note_id \in deleted) =>
                  ret'[t].note = NoRef
           /\ (Returns(t, "delete_88") /\ call[t].note_id \in deleted) =>
                  /\ ~ ret'[t].ok
                  /\ notes' = notes
                  /\ next_id' = next_id
                  /\ heap' = heap]_vars

\* a second delete of the same id has returned False
DeleteThenAbsentWitness ==
    \E t \in Threads :
        /\ pc[t] = "done"
        /\ call[t].op = "delete"
        /\ call[t].note_id \in deleted
        /\ ~ ret[t].ok

\* the set of the elements of a sequence
Range(q) == {q[i] : i \in 1..Len(q)}

\* C9: list_all(owner_id=o) returns exactly the stored notes whose owner_id is
\* o, each once: as many as were created for o and not deleted since;
\* list_all() returns every stored note.
ListAllByOwner ==
    [][\A t \in Threads :
           Returns(t, "list_62") =>
               LET o == call[t].owner_id
                   got == ret'[t].list
                   stored == Range(DictValues(notes))
               IN  /\ Cardinality(Range(got)) = Len(got)
                   /\ o = NoneStr => Range(got) = stored
                   /\ o # NoneStr =>
                          /\ Range(got) = {x \in stored : heap[x].owner_id = o}
                          /\ Len(got) = Cardinality({i \in 1..Len(created) :
                                            /\ created[i].owner_id = o
                                            /\ created[i].id \notin deleted})]_vars

\* list_all("alice") has returned one note of the two stored
ListAllByOwnerWitness ==
    \E t \in Threads :
        /\ pc[t] = "done"
        /\ call[t].op = "list_all"
        /\ call[t].owner_id = "alice"
        /\ Len(ret[t].list) = 1
        /\ Len(notes) = 2

\* C10: every stored note has updated_at >= created_at, and no step changes
\* the created_at of a note that stays stored.
TimestampsOrdered ==
    /\ [](\A i \in 1..Len(notes) : heap[notes[i].v].updated_at >= heap[notes[i].v].created_at)
    /\ [][\A k \in DictKeys(notes) \cap DictKeys(notes') :
              heap'[DictGet(notes', k)].created_at = heap[DictGet(notes, k)].created_at]_vars

\* a stored note was updated after it was created
TimestampsOrderedWitness ==
    \E i \in 1..Len(notes) : heap[notes[i].v].updated_at > heap[notes[i].v].created_at

\* a step of thread t leaves the repository as it is
RepositoryUnchanged == notes' = notes /\ next_id' = next_id /\ heap' = heap

\* C11: get, update and delete of an id that is not stored return None, None
\* and False and leave the notes and the id counter as they are, and of a
\* stored id they do not; the GET, PUT and DELETE handlers respond 404 when
\* the repository returned None or False, and at no other point.
NotFound ==
    [][\A t \in Threads :
           LET stored == DictHas(notes, call[t].note_id)
           IN  /\ Returns(t, "get_68") =>
                      /\ (ret'[t].note = NoRef) <=> ~ stored
                      /\ RepositoryUnchanged
               /\ Returns(t, "update_75") =>
                      /\ (pc'[t] # "update_77") <=> ~ stored
                      /\ ~ stored => ret'[t].note = NoRef
                      /\ RepositoryUnchanged
               /\ Returns(t, "update_82") => stored /\ ret'[t].note # NoRef
               /\ Returns(t, "delete_88") =>
                      /\ ret'[t].ok <=> stored
                      /\ ~ stored => RepositoryUnchanged
               /\ Returns(t, "get_note_108") => ((status'[t] = 404) <=> ret[t].note = NoRef)
               /\ Returns(t, "update_note_151") => ((status'[t] = 404) <=> ret[t].note = NoRef)
               /\ Returns(t, "delete_note_185") => ((status'[t] = 404) <=> ~ ret[t].ok)
               /\ (status'[t] = 404 /\ status[t] # 404) =>
                      pc[t] \in {"get_note_108", "update_note_151", "delete_note_185"}]_vars

\* PUT /notes/{id} for an id that was deleted before has responded 404
NotFoundWitness ==
    \E t \in Threads :
        /\ pc[t] = "done"
        /\ call[t].op = "update"
        /\ call[t].via = "http"
        /\ call[t].note_id \in deleted
        /\ status[t] = 404

\* a PUT request whose payload has neither title nor content
EmptyUpdate(c) ==
    c.op = "update" /\ c.via = "http" /\ c.title = NoneStr /\ c.content = NoneStr

\* C12: a PUT with neither title nor content is answered 400, whether a note
\* with its id is stored or not, and has called nothing of the repository:
\* the step that answers 400 starts the request and leaves the notes (their
\* updated_at, too), the id counter, the lock and the clock as they are;
\* nothing else answers 400.
EmptyUpdateRejected ==
    /\ [](\A t \in Threads : EmptyUpdate(call[t]) => pc[t] = "done" /\ status[t] = 400)
    /\ [][\A t \in Threads :
              (status'[t] = 400 /\ status[t] # 400) =>
                  /\ pc[t] = "idle"
                  /\ EmptyUpdate(call'[t])
                  /\ RepositoryUnchanged
                  /\ lock_owner' = lock_owner /\ lock_count' = lock_count
                  /\ clock' = clock]_vars

\* two empty PUTs were answered 400: one for a stored id, one for an id not stored
EmptyUpdateRejectedWitness ==
    \E t \in Threads, u \in Threads :
        /\ EmptyUpdate(call[t]) /\ status[t] = 400
        /\ EmptyUpdate(call[u]) /\ status[u] = 400
        /\ DictHas(notes, call[t].note_id)
        /\ ~ DictHas(notes, call[u].note_id)

\* C13: the responses to POST (Shopping, Milk), GET 1, PUT 1 (content
\* "Milk, Eggs"), DELETE 1, GET 1 on a fresh repository are: 201 with id 1 and
\* the title and content sent; 200 with the six fields create returned; 200
\* with content "Milk, Eggs" and title "Shopping"; 204; 404.
EndToEnd ==
    \A t \in Threads :
        pc[t] = "done" =>
            /\ ncalls = 1 =>
                   /\ status[t] = 201
                   /\ Len(out[t]) = 1
                   /\ out[t][1].id = 1
                   /\ out[t][1].title = "Shopping"
                   /\ out[t][1].content = "Milk"
                   /\ out[t][1].owner_id = call[t].user_id
                   /\ last.op = "create" /\ out[t][1] = last.val
            /\ ncalls = 2 =>
                   /\ status[t] = 200
                   /\ last.op = "get" /\ out[t] = <<last.val>>
                   /\ out[t][1].id = 1
                   /\ out[t][1].title = "Shopping"
                   /\ out[t][1].content = "Milk"
            /\ ncalls = 3 =>
                   /\ status[t] = 200
                   /\ Len(out[t]) = 1
                   /\ out[t][1].id = 1
                   /\ out[t][1].title = "Shopping"
                   /\ out[t][1].content = "Milk, Eggs"
            /\ ncalls = 4 => status[t] = 204 /\ out[t] = <<>>
            /\ ncalls = 5 => status[t] = 404 /\ out[t] = <<>>

\* the fifth request, the GET after the DELETE, was answered 404
EndToEndWitness ==
    \E t \in Threads : pc[t] = "done" /\ ncalls = 5 /\ status[t] = 404 /\ deleted = {1}

\* C14: every call of a repository method returns: a thread that is inside
\* create, list_all, get, update or delete, waiting for the lock or holding
\* it, eventually has its result.
EveryCallReturns ==
    \A t \in Threads : (pc[t] \notin {"idle", "done"}) ~> (pc[t] = "done")

\* a create holds the lock twice, inside _generate_id, while the other thread
\* waits for the lock
EveryCallReturnsWitness ==
    \E t \in Threads, u \in Threads :
        /\ pc[t] = "genid_40"
        /\ lock_owner = t
        /\ lock_count = 2
        /\ pc[u] \in {"create_47", "list_57", "get_67", "update_73", "delete_87"}

\* the statements a thread executes holding the lock (inside a with block)
Critical ==
    {"genid_39", "genid_40", "genid_41", "genid_42",
     "create_49", "create_50", "create_51", "create_52",
     "list_58", "list_59", "list_62", "get_68",
     "update_74", "update_75", "update_77", "update_79", "update_81", "update_82",
     "delete_88"}

\* in create: the id counter is incremented and the note is not inserted yet
CreateGap == {"genid_42", "create_49", "create_50", "create_51"}

\* the ids issued so far that are neither keys of _notes nor deleted
IssuedAndMissing == {k \in 1..(next_id - 1) : ~ DictHas(notes, k) /\ k \notin deleted}

\* C15: at most one thread is inside a with block of the repository, and it
\* owns the lock; so while a create is between the increment of the counter
\* and the insertion no other thread is inside get, list_all, update or
\* delete, and whenever a thread is inside one of these, every id below the
\* counter is stored or was deleted.
MutualExclusion ==
    /\ \A t \in Threads : pc[t] \in Critical => lock_owner = t /\ lock_count > 0
    /\ \A t \in Threads, u \in Threads :
           (t # u /\ pc[t] \in Critical) => pc[u] \notin Critical
    /\ \A t \in Threads :
           pc[t] \in Critical \ InCreate => IssuedAndMissing = {}
    /\ (\A t \in Threads : pc[t] \notin CreateGap) => IssuedAndMissing = {}

\* a create has issued an id and not inserted the note yet, and another
\* thread has called get with that id and waits for the lock
MutualExclusionWitness ==
    \E t \in Threads, u \in Threads :
        /\ pc[t] = "create_51"
        /\ pc[u] = "get_67"
        /\ call[u].note_id = loc[t].nid
        /\ IssuedAndMissing = {loc[t].nid}

\* thread t has returned from update(k, title=...) and thread u from
\* update(k, content=...), each with a note
BothUpdated(t, u, k) ==
    /\ t # u
    /\ pc[t] = "done" /\ pc[u] = "done"
    /\ call[t].op = "update" /\ call[u].op = "update"
    /\ call[t].note_id = k /\ call[u].note_id = k
    /\ call[t].title # NoneStr /\ call[t].content = NoneStr
    /\ call[u].title = NoneStr /\ call[u].content # NoneStr
    /\ ret[t].note # NoRef /\ ret[u].note # NoRef

\* C16: when update(k, title=T) by one thread and update(k, content=C) by the
\* other have both returned a note, in whatever order their statements ran,
\* the stored note k has title T and content C, and both returned it.
UpdatesNotLost ==
    \A t \in Threads, u \in Threads, k \in NoteIds :
        BothUpdated(t, u, k) =>
            LET x == DictGet(notes, k)
            IN  /\ x # NoRef
                /\ ret[t].note = x /\ ret[u].note = x
                /\ heap[x].title = call[t].title
                /\ heap[x].content = call[u].content

\* both updates of note 1 have returned
UpdatesNotLostWitness ==
    \E t \in Threads, u \in Threads :
        /\ BothUpdated(t, u, 1)
        /\ heap[DictGet(notes, 1)].title = "T2"
        /\ heap[DictGet(notes, 1)].content = "C2"

\* C17: an id for which delete returned True is never a key of _notes again:
\* no create is given it, and every later get and update of it returns None
\* and every later delete of it False.
DeletedStaysAbsent ==
    /\ [](\A k \in deleted : ~ DictHas(notes, k))
    /\ [][/\ deleted \subseteq deleted'
          /\ \A t \in Threads :
                 /\ Returns(t, "genid_40") => loc'[t].nid \notin deleted
                 /\ (Returns(t, "get_68") /\ call[t].note_id \in deleted) =>
                        ret'[t].note = NoRef
                 /\ (Returns(t, "update_75") /\ call[t].note_id \in deleted) =>
                        pc'[t] # "update_77" /\ ret'[t].note = NoRef
                 /\ (Returns(t, "delete_88") /\ call[t].note_id \in deleted) =>
                        ~ ret'[t].ok]_vars

\* id 1 was deleted, and a create has returned a note with another id
DeletedStaysAbsentWitness ==
    \E t \in Threads :
        /\ deleted = {1}
        /\ pc[t] = "done"
        /\ call[t].op = "create"
        /\ ret[t].note # NoRef
        /\ heap[ret[t].note].id = 2
        /\ DictKeys(notes) = {2}

\* C18: update(id) with neither title nor content, of a stored id, does not
\* return None: it returns the stored note with title, content, id, owner_id
\* and created_at as they were and updated_at set to the time just read,
\* which is not before the old updated_at.
EmptyUpdateRefreshes ==
    [][\A t \in Threads :
           (call[t].op = "update" /\ call[t].title = NoneStr /\ call[t].content = NoneStr) =>
               /\ (Returns(t, "update_75") /\ DictHas(notes, call[t].note_id)) =>
                      pc'[t] = "update_77"
               /\ Returns(t, "update_82") =>
                      LET x == ret'[t].note
                          b == loc[t].before
                      IN  /\ x # NoRef
                          /\ x = DictGet(notes', call[t].note_id)
                          /\ heap'[x].title = b.title
                          /\ heap'[x].content = b.content
                          /\ Frame(heap'[x]) = Frame(b)
                          /\ heap'[x].updated_at = clock
                          /\ heap'[x].updated_at >= b.updated_at]_vars

\* update(1) with no field has returned note 1 with its title and content and
\* a later updated_at
EmptyUpdateRefreshesWitness ==
    \E t \in Threads :
        /\ pc[t] = "done"
        /\ call[t].op = "update"
        /\ call[t].title = NoneStr /\ call[t].content = NoneStr
        /\ ret[t].note # NoRef
        /\ heap[ret[t].note].title = "T1"
        /\ heap[ret[t].note].content = "C1"
        /\ heap[ret[t].note].updated_at > heap[ret[t].note].created_at

\* C19: what GET, PUT and DELETE /notes/{id} do is decided by the id, the
\* payload and the stored notes, whoever the caller is: the note is found
\* when the id is stored, whatever its owner_id; the statuses are 200 or 204
\* when it is found and 404 when it is not; PUT sets the fields of its
\* payload and DELETE removes the key.  GET /notes is given exactly the
\* stored notes whose owner_id is the caller's user_id.  No step changes the
\* owner_id of a note.
IdentityIgnored ==
    [][/\ \A x \in 1..Len(heap) : heap'[x].owner_id = heap[x].owner_id
       /\ \A t \in Threads :
              call[t].via = "http" =>
                  LET k == call[t].note_id
                      stored == DictHas(notes, k)
                  IN  /\ Returns(t, "get_68") =>
                             /\ (ret'[t].note # NoRef) <=> stored
                             /\ stored => heap[ret'[t].note].id = k
                             /\ RepositoryUnchanged
                      /\ Returns(t, "get_note_108") =>
                             IF ret[t].note = NoRef THEN status'[t] = 404
                                                    ELSE pc'[t] = "out_17"
                      /\ Returns(t, "update_75") => ((pc'[t] = "update_77") <=> stored)
                      /\ Returns(t, "update_82") =>
                             LET x == ret'[t].note
                             IN  /\ x # NoRef /\ x = DictGet(notes', k)
                                 /\ call[t].title # NoneStr => heap'[x].title = call[t].title
                                 /\ call[t].content # NoneStr =>
                                        heap'[x].content = call[t].content
                      /\ Returns(t, "update_note_151") =>
                             IF ret[t].note = NoRef THEN status'[t] = 404
                                                    ELSE pc'[t] = "out_17"
                      /\ (Returns(t, "respond") /\ call[t].op \in {"get", "update"}) =>
                             status'[t] = 200
                      /\ Returns(t, "delete_88") =>
                             /\ ret'[t].ok <=> stored
                             /\ DictKeys(notes') = DictKeys(notes) \ {k}
                             /\ heap' = heap /\ next_id' = next_id
                      /\ Returns(t, "delete_note_185") =>
                             status'[t] = IF ret[t].ok THEN 204 ELSE 404
                      /\ Returns(t, "list_62") =>
                             Range(ret'[t].list) =
                                 {x \in Range(DictValues(notes)) :
                                      heap[x].owner_id = call[t].user_id}]_vars

\* DELETE /notes/{id} by a caller who is not the owner of the note was answered 204
IdentityIgnoredWitness ==
    \E t \in Threads, x \in 1..Len(heap) :
        /\ pc[t] = "done"
        /\ call[t].op = "delete"
        /\ call[t].via = "http"
        /\ status[t] = 204
        /\ heap[x].id = call[t].note_id
        /\ heap[x].owner_id # call[t].user_id
        /\ ~ DictHas(notes, call[t].note_id)

\* C20: every key k of _notes maps to a note whose id is k, with
\* 1 <= k < _next_id; _next_id never decreases; a step of get or list_all
\* changes neither _notes, _next_id nor a note; a step of update changes
\* neither _notes nor _next_id nor a note other than the one under its id; a
\* step of delete changes neither _next_id nor a note nor the entry of
\* another key.
StoreConsistent ==
    /\ [](\A i \in 1..Len(notes) :
              /\ heap[notes[i].v].id = notes[i].k
              /\ 1 <= notes[i].k
              /\ notes[i].k < next_id)
    /\ [][/\ next_id' >= next_id
          /\ \A t \in Threads :
                 pc'[t] # pc[t] =>
                     LET k == call[t].note_id
                     IN  /\ call[t].op \in {"get", "list_all"} => RepositoryUnchanged
                         /\ call[t].op = "update" =>
                                /\ notes' = notes
                                /\ next_id' = next_id
                                /\ \A x \in 1..Len(heap) :
                                       x # DictGet(notes, k) => heap'[x] = heap[x]
                         /\ call[t].op = "delete" =>
                                /\ next_id' = next_id
                                /\ heap' = heap
                                /\ DictKeys(notes') \subseteq DictKeys(notes)
                                /\ \A j \in DictKeys(notes) \ {k} :
                                       DictGet(notes', j) = DictGet(notes, j)]_vars

\* two notes were created and delete(1) has returned True: note 2 is stored
\* under key 2 and the counter is 3
StoreConsistentWitness ==
    \E t \in Threads :
        /\ pc[t] = "done"
        /\ call[t].op = "delete"
        /\ call[t].note_id = 1
        /\ ret[t].ok
        /\ DictKeys(notes) = {2}
        /\ heap[DictGet(notes, 2)].id = 2
        /\ next_id = 3

====
